---- MODULE Spec2Model ----
(***************************************************************************)
(* Slot / Date scheduling engine of src/slot.py and src/date.py.           *)
(*                                                                         *)
(* Representation                                                          *)
(*   - a calendar date is a day ordinal; ordinal d has weekday d % 7 with  *)
(*     0 = Monday (Python's date.weekday()).                               *)
(*   - a date string is <<day, fmt>>: fmt "iso" is the zero padded         *)
(*     YYYY-MM-DD text strftime produces, "short" is an unpadded text that *)
(*     strptime still accepts, "bad" is text strptime rejects.  <<>> is    *)
(*     None / the empty string.                                            *)
(*   - a time string is <<hh, mm>>; <<>> is None / the empty string.       *)
(*   - a naive datetime built by strptime("%H:%M") is the number of        *)
(*     minutes since 1900-01-01 00:00, so adding a timedelta never wraps.  *)
(*   - an instant of the calendar backend is day * 1440 + minute of day.   *)
(*   - a call's outcome is [exc, val]: exc = "" for a normal return of     *)
(*     val, otherwise the name of the exception class raised.              *)
(***************************************************************************)
EXTENDS Integers, Sequences, FiniteSets, TLC

VARIABLES
    slot_start_time,   \* self.slot_start_time   (minutes since 1900-01-01 00:00)
    slot_end_time,     \* self.slot_end_time
    lunch_start_time,  \* self.lunch_start_time
    lunch_end_time,    \* self.lunch_end_time
    duration,          \* self.duration
    date_value,        \* self.date_value        (day ordinal)
    holidays,          \* self.holidays          (set of date strings)
    events,            \* the events held by the calendar backend
    service_up,        \* whether the calendar backend answers requests
    today,             \* date.today() of the host
    zone_ahead,        \* days by which the date in self.timezone is ahead of today
    now_time,          \* time of day in self.timezone (minutes)
    clinic_service,    \* self.service of the ClinicAppointment, once there is one
    call,              \* the last operation and its arguments
    ret,               \* its outcome
    bot,               \* the bot control API of src/airflow.py and its DAG runs
    vad                \* the SileroVADSTTService instance and what it was fed

vars == <<slot_start_time, slot_end_time, lunch_start_time, lunch_end_time,
          duration, date_value, holidays, events, service_up, today,
          zone_ahead, now_time, clinic_service, call, ret, bot, vad>>

\* What no operation of the instance changes: its settings, the clock of the
\* day, and the services that have nothing to do with scheduling.
config == <<slot_start_time, slot_end_time, lunch_start_time, lunch_end_time,
            duration, date_value, zone_ahead, now_time, clinic_service, bot, vad>>

\* Everything the scheduling classes read or write.
scheduling == <<slot_start_time, slot_end_time, lunch_start_time, lunch_end_time,
                duration, date_value, holidays, events, service_up, today,
                zone_ahead, now_time, clinic_service, call, ret>>

-----------------------------------------------------------------------------
(* Bounds of the model *)

MaxDay == 6
MaxToday == 2
MaxEvents == 2

-----------------------------------------------------------------------------
(* Program constants *)

DURATIONS == {15, 30, 45, 60}
DEFAULT_DURATION == 30
DEFAULT_START_TIME == <<9, 0>>
DEFAULT_END_TIME == <<17, 0>>
DEFAULT_LUNCH_START == <<12, 0>>
DEFAULT_LUNCH_END == <<13, 0>>
WEEKEND_DAYS == {5, 6}
ALIGN_MINUTES == 15
STEP_MINUTES == 15
MINUTES_PER_DAY == 1440

None == <<>>

Return(v) == [exc |-> "", val |-> v]
Raise(e) == [exc |-> e, val |-> <<>>]
RaiseMsg(e, msg) == [exc |-> e, val |-> msg]

-----------------------------------------------------------------------------
(* datetime.strptime / strftime *)

WellFormedTime(s) == Len(s) = 2 /\ s[1] \in 0..23 /\ s[2] \in 0..59
strptime_HM(s) == s[1] * 60 + s[2]
strftime_HM(t) == <<(t % MINUTES_PER_DAY) \div 60, t % 60>>

WellFormedDate(s) == Len(s) = 2 /\ s[2] \in {"iso", "short"}
strptime_date(s) == s[1]
strftime_date(d) == <<d, "iso">>

weekday(d) == d % 7

get_datetime_string(date_obj, time_obj) ==
    date_obj * MINUTES_PER_DAY + (time_obj % MINUTES_PER_DAY)

-----------------------------------------------------------------------------
(* Slot.is_valid_time, src/slot.py *)

MSG_PAST == "Cannot book slots in the past"
MSG_DURATION == "Invalid duration. Must be one of [15, 30, 45, 60] minutes"
MSG_OUTSIDE == "Start time is outside working hours"
MSG_EXCEEDS == "Slot would exceed working hours"
MSG_LUNCH == "Slot overlaps with lunch break"
MSG_ALIGN == "Invalid start time. Slots must start at 15-minute intervals"
MSG_VALID == "Valid slot time"
MSG_VALUE_ERROR == "time data does not match format"

\* `x or default` for the three optional arguments
or_start_time(start_time) ==
    IF start_time = None THEN strftime_HM(slot_start_time) ELSE start_time
or_duration(dur) == IF dur = 0 THEN duration ELSE dur
or_date(check_date) ==
    IF check_date = None THEN strftime_date(date_value) ELSE check_date

\* date_obj < date.today()
in_the_past(date_obj) == date_obj < today

\* req_time < self.slot_start_time or req_time >= self.slot_end_time
outside_working_hours(req_time) ==
    req_time < slot_start_time \/ req_time >= slot_end_time

\* Mutant: a slot that ends exactly at slot_end_time is refused.
exceeds_working_hours_strict(end_time) == end_time >= slot_end_time

\* end_time > self.slot_end_time
exceeds_working_hours(end_time) == end_time > slot_end_time

\* Mutant: the lunch break is treated as a closed interval.
overlaps_lunch_closed(req_time, end_time) ==
    ~(end_time < lunch_start_time \/ req_time > lunch_end_time)

\* not (end_time <= self.lunch_start_time or req_time >= self.lunch_end_time)
overlaps_lunch(req_time, end_time) ==
    ~(end_time <= lunch_start_time \/ req_time >= lunch_end_time)

\* Mutant: alignment is taken from midnight, not from slot_start_time.
misaligned_from_midnight(req_time) == req_time % ALIGN_MINUTES # 0

\* minutes_from_start % 15 != 0
misaligned(req_time) == (req_time - slot_start_time) % ALIGN_MINUTES # 0

Verdict(ok, msg) == [ok |-> ok, msg |-> msg]

\* Mutant: the lunch check is made before the working-hours checks.
is_valid_time_lunch_first(start_time_arg, duration_arg, check_date_arg) ==
    LET start_time == or_start_time(start_time_arg)
        dur == or_duration(duration_arg)
        check_date == or_date(check_date_arg)
    IN  IF ~WellFormedDate(check_date) THEN Verdict(FALSE, MSG_VALUE_ERROR)
        ELSE IF in_the_past(strptime_date(check_date)) THEN Verdict(FALSE, MSG_PAST)
        ELSE IF dur \notin DURATIONS THEN Verdict(FALSE, MSG_DURATION)
        ELSE IF ~WellFormedTime(start_time) THEN Verdict(FALSE, MSG_VALUE_ERROR)
        ELSE LET req_time == strptime_HM(start_time)
                 end_time == req_time + dur
             IN  IF overlaps_lunch(req_time, end_time) THEN Verdict(FALSE, MSG_LUNCH)
                 ELSE IF outside_working_hours(req_time) THEN Verdict(FALSE, MSG_OUTSIDE)
                 ELSE IF exceeds_working_hours(end_time) THEN Verdict(FALSE, MSG_EXCEEDS)
                 ELSE IF misaligned(req_time) THEN Verdict(FALSE, MSG_ALIGN)
                 ELSE Verdict(TRUE, MSG_VALID)

\* A validation that also looks the slot up in the calendar.
is_valid_time_booked(start_time_arg, duration_arg, check_date_arg) ==
    LET start_time == or_start_time(start_time_arg)
        dur == or_duration(duration_arg)
        check_date == or_date(check_date_arg)
    IN  IF ~WellFormedDate(check_date) THEN Verdict(FALSE, MSG_VALUE_ERROR)
        ELSE IF in_the_past(strptime_date(check_date)) THEN Verdict(FALSE, MSG_PAST)
        ELSE IF dur \notin DURATIONS THEN Verdict(FALSE, MSG_DURATION)
        ELSE IF ~WellFormedTime(start_time) THEN Verdict(FALSE, MSG_VALUE_ERROR)
        ELSE LET req_time == strptime_HM(start_time)
                 end_time == req_time + dur
                 date_obj == strptime_date(check_date)
                 listed == {e \in events :
                              /\ e.end > get_datetime_string(date_obj, req_time)
                              /\ e.start < get_datetime_string(date_obj, end_time)}
             IN  IF outside_working_hours(req_time) THEN Verdict(FALSE, MSG_OUTSIDE)
                 ELSE IF exceeds_working_hours(end_time) THEN Verdict(FALSE, MSG_EXCEEDS)
                 ELSE IF overlaps_lunch(req_time, end_time) THEN Verdict(FALSE, MSG_LUNCH)
                 ELSE IF misaligned(req_time) THEN Verdict(FALSE, MSG_ALIGN)
                 ELSE IF ~service_up \/ listed # {} THEN Verdict(FALSE, MSG_VALUE_ERROR)
                 ELSE Verdict(TRUE, MSG_VALID)

is_valid_time(start_time_arg, duration_arg, check_date_arg) ==
    LET start_time == or_start_time(start_time_arg)
        dur == or_duration(duration_arg)
        check_date == or_date(check_date_arg)
    IN  IF ~WellFormedDate(check_date) THEN Verdict(FALSE, MSG_VALUE_ERROR)
        ELSE IF in_the_past(strptime_date(check_date)) THEN Verdict(FALSE, MSG_PAST)
        ELSE IF dur \notin DURATIONS THEN Verdict(FALSE, MSG_DURATION)
        ELSE IF ~WellFormedTime(start_time) THEN Verdict(FALSE, MSG_VALUE_ERROR)
        ELSE LET req_time == strptime_HM(start_time)
                 end_time == req_time + dur
             IN  IF outside_working_hours(req_time) THEN Verdict(FALSE, MSG_OUTSIDE)
                 ELSE IF exceeds_working_hours(end_time) THEN Verdict(FALSE, MSG_EXCEEDS)
                 ELSE IF overlaps_lunch(req_time, end_time) THEN Verdict(FALSE, MSG_LUNCH)
                 ELSE IF misaligned(req_time) THEN Verdict(FALSE, MSG_ALIGN)
                 ELSE Verdict(TRUE, MSG_VALID)

-----------------------------------------------------------------------------
(* The calendar backend and Slot.is_slot_available, src/slot.py *)

\* events().list(timeMin, timeMax): the events that end after timeMin and
\* start before timeMax; an empty or inverted range is refused by the backend.
\* Mutant: both bounds of the query are inclusive.
events_list_inclusive(timeMin, timeMax) ==
    IF ~service_up THEN Raise("HttpError")
    ELSE IF timeMax <= timeMin THEN Raise("HttpError")
    ELSE Return({e \in events : e.end >= timeMin /\ e.start <= timeMax})

events_list(timeMin, timeMax) ==
    IF ~service_up THEN Raise("HttpError")
    ELSE IF timeMax <= timeMin THEN Raise("HttpError")
    ELSE Return({e \in events : e.end > timeMin /\ e.start < timeMax})

\* Mutant: the window asked of the backend is built from self.duration instead
\* of the requested duration.
is_slot_available_own_duration(start_time_arg, duration_arg, check_date_arg) ==
    LET start_time == or_start_time(start_time_arg)
        date_str == or_date(check_date_arg)
    IN  IF ~WellFormedDate(date_str) \/ ~WellFormedTime(start_time)
        THEN Raise("Exception")
        ELSE LET date_obj == strptime_date(date_str)
                 start_obj == strptime_HM(start_time)
                 end_obj == start_obj + duration
                 listed == events_list(get_datetime_string(date_obj, start_obj),
                                       get_datetime_string(date_obj, end_obj))
             IN  IF listed.exc # "" THEN Raise("Exception")
                 ELSE Return(Cardinality(listed.val) = 0)

is_slot_available(start_time_arg, duration_arg, check_date_arg) ==
    LET start_time == or_start_time(start_time_arg)
        dur == or_duration(duration_arg)
        date_str == or_date(check_date_arg)
    IN  IF ~WellFormedDate(date_str) \/ ~WellFormedTime(start_time)
        THEN Raise("Exception")
        ELSE LET date_obj == strptime_date(date_str)
                 start_obj == strptime_HM(start_time)
                 end_obj == start_obj + dur
                 start_datetime == get_datetime_string(date_obj, start_obj)
                 end_datetime == get_datetime_string(date_obj, end_obj)
                 listed == events_list(start_datetime, end_datetime)
             IN  IF listed.exc # "" THEN Raise("Exception")
                 ELSE Return(Cardinality(listed.val) = 0)

-----------------------------------------------------------------------------
(* Slot.get_end_time and Slot.get_available_slots, src/slot.py *)

get_end_time(start_time_arg) ==
    LET start_time == or_start_time(start_time_arg)
    IN  strftime_HM(strptime_HM(start_time) + duration)

slot_info(check_date, time_str) ==
    [date |-> check_date, start_time |-> time_str,
     end_time |-> get_end_time(time_str), duration |-> duration]

\* Mutant: the loop stops as soon as the candidate's end reaches slot_end_time.
RECURSIVE slots_loop_strict_end(_, _, _, _)
slots_loop_strict_end(current_time, dur, check_date, available_slots) ==
    IF ~(current_time + dur < slot_end_time) THEN Return(available_slots)
    ELSE LET time_str == strftime_HM(current_time)
             is_valid == is_valid_time(time_str, dur, check_date).ok
             avail == IF is_valid THEN is_slot_available(time_str, dur, check_date)
                      ELSE Return(FALSE)
         IN  IF avail.exc # "" THEN Raise(avail.exc)
             ELSE slots_loop_strict_end(current_time + STEP_MINUTES, dur, check_date,
                             IF is_valid /\ avail.val
                             THEN Append(available_slots, slot_info(check_date, time_str))
                             ELSE available_slots)

RECURSIVE slots_loop_prepend(_, _, _, _)
\* The loop with each slot found put in front of the ones before it.
slots_loop_prepend(current_time, dur, check_date, available_slots) ==
    IF ~(current_time < slot_end_time) THEN Return(available_slots)
    ELSE LET time_str == strftime_HM(current_time)
             is_valid == is_valid_time(time_str, dur, check_date).ok
             avail == IF is_valid THEN is_slot_available(time_str, dur, check_date)
                      ELSE Return(FALSE)
         IN  IF avail.exc # "" THEN Raise(avail.exc)
             ELSE slots_loop_prepend(current_time + STEP_MINUTES, dur, check_date,
                             IF is_valid /\ avail.val
                             THEN <<slot_info(check_date, time_str)>> \o available_slots
                             ELSE available_slots)

RECURSIVE slots_loop(_, _, _, _)
slots_loop(current_time, dur, check_date, available_slots) ==
    IF ~(current_time < slot_end_time) THEN Return(available_slots)
    ELSE LET time_str == strftime_HM(current_time)
             is_valid == is_valid_time(time_str, dur, check_date).ok
             avail == IF is_valid THEN is_slot_available(time_str, dur, check_date)
                      ELSE Return(FALSE)
         IN  IF avail.exc # "" THEN Raise(avail.exc)
             ELSE slots_loop(current_time + STEP_MINUTES, dur, check_date,
                             IF is_valid /\ avail.val
                             THEN Append(available_slots, slot_info(check_date, time_str))
                             ELSE available_slots)

Slot_get_available_slots(duration_arg, requested_date) ==
    LET dur == or_duration(duration_arg)
    IN  IF dur \notin DURATIONS THEN Raise("ValueError")
        ELSE slots_loop(slot_start_time, dur, or_date(requested_date), <<>>)

-----------------------------------------------------------------------------
(* Date, src/date.py *)

is_weekend(d) == weekday(d) \in WEEKEND_DAYS
is_holiday(d, hs) == strftime_date(d) \in hs
\* A day counted as off only when it is both a holiday and a weekend day.
is_working_day_both(d, hs) == ~(is_holiday(d, hs) /\ is_weekend(d))

is_working_day(d, hs) == ~(is_holiday(d, hs) \/ is_weekend(d))

\* service_account.Credentials.from_service_account_file(credentials_path):
\* succeeds only when the path names a readable key file.
initialize_google_calendar(credentials_path) ==
    IF credentials_path = "" THEN Raise("Exception") ELSE Return(TRUE)

\* datetime.now(self.timezone).date()
zone_today == today + zone_ahead

\* Slot._initialize_date
initialize_date(date_arg) ==
    IF date_arg = None THEN Return(zone_today)
    ELSE IF ~WellFormedDate(date_arg) THEN Raise("ValueError")
    ELSE Return(strptime_date(date_arg))

\* Date.__init__ / Slot.__init__ of a temporary instance: the date is parsed
\* first, the calendar service is built last.
new_instance(credentials_path, date_arg, hs) ==
    LET d == initialize_date(date_arg)
        g == initialize_google_calendar(credentials_path)
    IN  IF d.exc # "" THEN Raise(d.exc)
        ELSE IF g.exc # "" THEN Raise(g.exc)
        ELSE Return([date_value |-> d.val, holidays |-> hs])

Date_get_available_slots(duration_arg, requested_date) ==
    LET check_date == or_date(requested_date)
        temp_instance == new_instance("", check_date, holidays)
    IN  IF temp_instance.exc # "" THEN Raise(temp_instance.exc)
        ELSE IF ~is_working_day(temp_instance.val.date_value,
                                temp_instance.val.holidays)
        THEN Return(<<>>)
        ELSE Slot_get_available_slots(duration_arg, requested_date)

-----------------------------------------------------------------------------
(* Construction *)

\* Slot.__init__: self.duration
init_duration(duration_arg) ==
    IF duration_arg \in DURATIONS THEN duration_arg ELSE DEFAULT_DURATION

\* Slot.__init__ with the default hours: the fields of the new instance, or
\* the exception of the date or of the calendar service.
Slot_init(credentials_path, duration_arg, date_arg) ==
    LET d == initialize_date(date_arg)
        g == initialize_google_calendar(credentials_path)
    IN  IF d.exc # "" THEN Raise(d.exc)
        ELSE IF g.exc # "" THEN Raise(g.exc)
        ELSE Return([duration |-> init_duration(duration_arg),
                     date_value |-> d.val])

\* The working-hours settings an instance is constructed with: the defaults,
\* and 09:07-16:07 with a break 15:22-15:52 (hours off the quarter hours, a
\* break less than one slot away from the end of the day).
Settings ==
    { <<DEFAULT_START_TIME, DEFAULT_END_TIME, DEFAULT_LUNCH_START, DEFAULT_LUNCH_END>>,
      <<<<9, 7>>, <<16, 7>>, <<15, 22>>, <<15, 52>>>> }

ConstructorDurations == {20, 30, 45}

Idle == [name |-> "idle", start_time |-> None, duration |-> 0, date |-> None,
         contact |-> None, count |-> 0]

-----------------------------------------------------------------------------
(* Bot control API of src/airflow.py.                                       *)
(*                                                                          *)
(* bot.dag_runs        the DagRun rows of bot_control_dag, by state         *)
(* bot.task_instances  the run_bot task of each run, by state               *)
(* bot.try_number      how often the task of each run was started           *)
(* bot.bot_process     the runs whose task holds a live bot.py subprocess   *)
(* bot.response        the answer to the request being served               *)
(*                                                                          *)
(* A request handler has no await in it, so it runs from its first line to  *)
(* its return without another handler in between.                          *)

MaxRuns == 2
RunIds == 1..MaxRuns

\* default_args['retries'].
retries == 1

NoResponse == [request |-> "", status |-> "", message |-> ""]
Response(request, status, message) ==
    [request |-> request, status |-> status, message |-> message]

BotInit ==
    [ dag_runs |-> [r \in RunIds |-> "none"],
      task_instances |-> [r \in RunIds |-> "none"],
      try_number |-> [r \in RunIds |-> 0],
      bot_process |-> {},
      response |-> NoResponse ]

\* DagRun.find(dag_id='bot_control_dag', state=state).
DagRun_find(state) == {r \in RunIds : bot.dag_runs[r] = state}

\* The state of the row trigger_dag adds: queued until the scheduler starts
\* the run, or running from the start where the installed Airflow creates
\* manual runs that way.
TriggeredStates == {"queued", "running"}

\* POST /start_bot.
start_bot ==
    /\ bot.response = NoResponse
    /\ LET dag_runs == DagRun_find("running")
       IN  IF dag_runs # {}
           THEN bot' = [bot EXCEPT !.response = Response("start_bot", "warning",
                                                         "Bot is already running")]
           ELSE \E r \in RunIds, s \in TriggeredStates :
                   /\ bot.dag_runs[r] = "none"
                   /\ \A q \in RunIds : bot.dag_runs[q] = "none" => r <= q
                   /\ bot' = [bot EXCEPT !.dag_runs[r] = s,
                                         !.response = Response("start_bot", "success",
                                                               "Bot started successfully")]
    /\ UNCHANGED <<scheduling, vad>>

\* What ti.task.stop() can do: stop is no method this file defines on its
\* operator, so the call raises AttributeError; where the operator has one, it
\* returns.
StopOutcomes == {"AttributeError", "returned"}

\* POST /stop_bot.  The global bot_process of the process serving the API is
\* None throughout: run_bot assigns it in the process of its task.
stop_bot ==
    /\ bot.response = NoResponse
    /\ LET dag_runs == DagRun_find("running")
       IN  IF dag_runs = {}
           THEN bot' = [bot EXCEPT !.response = Response("stop_bot", "warning",
                                                "No running bot instances found")]
           ELSE \E outcome \in StopOutcomes :
                   bot' = [bot EXCEPT !.response =
                              IF outcome = "AttributeError"
                              THEN Response("stop_bot", "HTTPException", "500")
                              ELSE Response("stop_bot", "success",
                                            "Bot stopped successfully")]
    /\ UNCHANGED <<scheduling, vad>>

\* The client has its answer.
Responded ==
    /\ bot.response # NoResponse
    /\ bot' = [bot EXCEPT !.response = NoResponse]
    /\ UNCHANGED <<scheduling, vad>>

\* The scheduler starts a queued run.
Scheduler_starts_run ==
    /\ \E r \in RunIds :
          /\ bot.dag_runs[r] = "queued"
          /\ bot' = [bot EXCEPT !.dag_runs[r] = "running"]
    /\ UNCHANGED <<scheduling, vad>>

\* run_bot up to the monitoring loop: the task of a running run starts, or
\* starts again after a failed try, and opens bot.py as a subprocess.
run_bot ==
    /\ \E r \in RunIds :
          /\ bot.dag_runs[r] = "running"
          /\ bot.task_instances[r] \in {"none", "up_for_retry"}
          /\ bot' = [bot EXCEPT !.task_instances[r] = "running",
                                !.try_number[r] = @ + 1,
                                !.bot_process = @ \cup {r}]
    /\ UNCHANGED <<scheduling, vad>>

\* How the monitoring loop of run_bot ends: with the exception of its
\* is_stopped() call, or with bot.py gone or the task stopped.
MonitorOutcomes == {"raised", "finished"}

\* run_bot from the monitoring loop on: bot.py is no longer running, and the
\* task instance and its run get their final states, or the task waits for its
\* retry.
run_bot_ends ==
    /\ \E r \in RunIds, outcome \in MonitorOutcomes :
          /\ bot.task_instances[r] = "running"
          /\ LET state == IF outcome = "finished" THEN "success"
                          ELSE IF bot.try_number[r] <= retries THEN "up_for_retry"
                          ELSE "failed"
             IN  bot' = [bot EXCEPT !.task_instances[r] = state,
                                    !.dag_runs[r] = IF state = "up_for_retry"
                                                    THEN @ ELSE state,
                                    !.bot_process = @ \ {r}]
    /\ UNCHANGED <<scheduling, vad>>

-----------------------------------------------------------------------------
(* SileroVADSTTService of src/SileroVADSTTService.py.                       *)
(*                                                                          *)
(* An audio frame is known by its place in what the service was fed; a      *)
(* speech probability is a number of hundredths.                            *)
(*                                                                          *)
(* vad.content      the frames written to self._content through self._wave  *)
(* vad.wave_open    self._wave has not been closed                          *)
(* vad.is_speech    self._is_speech                                         *)
(* vad.transcribed  the audio of each run_stt call, in order                *)
(* vad.fed          the frames and cancels the service was given, in order  *)
(* vad.error        the exception of the last call, "" when it returned     *)
(* vad.ended        stop() has been called: the stream is over              *)

MaxFrames == 4

\* threshold of __init__, in hundredths.
threshold == 50

\* Speech probabilities the VAD model gives a frame.
ProbInputs == {20, 50, 80}

VadInit ==
    [ content |-> <<>>, wave_open |-> TRUE, is_speech |-> FALSE,
      transcribed |-> <<>>, fed |-> <<>>, error |-> "", ended |-> FALSE ]

Fed(kind, speech_prob) == [kind |-> kind, speech_prob |-> speech_prob]

\* self._wave.writeframes(frame.audio): a Wave_write that was closed has no
\* file to write to.
writeframes(frame) ==
    IF vad.wave_open THEN Return(Append(vad.content, frame))
    ELSE Raise("AttributeError")

\* process_audio_frame: the service after the frame.
process_audio_frame(speech_prob) ==
    LET frame == Len(vad.fed) + 1
        is_speech == speech_prob >= threshold
        fed == Append(vad.fed, Fed("frame", speech_prob))
    IN  IF is_speech
        THEN IF writeframes(frame).exc # ""
             THEN [vad EXCEPT !.error = writeframes(frame).exc, !.fed = fed]
             ELSE [vad EXCEPT !.content = writeframes(frame).val,
                              !.is_speech = TRUE, !.error = "", !.fed = fed]
        ELSE IF vad.is_speech
        THEN [vad EXCEPT !.transcribed = Append(@, vad.content),
                         !.is_speech = FALSE,
                         !.content = <<>>, !.wave_open = TRUE,
                         !.error = "", !.fed = fed]
        ELSE [vad EXCEPT !.error = "", !.fed = fed]

Call_process_audio_frame ==
    /\ ~vad.ended
    /\ Len(vad.fed) < MaxFrames
    /\ \E speech_prob \in ProbInputs : vad' = process_audio_frame(speech_prob)
    /\ UNCHANGED <<scheduling, bot>>

\* stop(frame): the stream has ended.
stop ==
    /\ ~vad.ended
    /\ vad' = [vad EXCEPT !.transcribed = IF vad.is_speech THEN Append(@, vad.content)
                                          ELSE @,
                          !.wave_open = FALSE, !.error = "", !.ended = TRUE]
    /\ UNCHANGED <<scheduling, bot>>

\* cancel(frame).
cancel ==
    /\ ~vad.ended
    /\ Len(vad.fed) < MaxFrames
    /\ vad' = [vad EXCEPT !.wave_open = FALSE, !.is_speech = FALSE, !.error = "",
                          !.fed = Append(@, Fed("cancel", 0))]
    /\ UNCHANGED <<scheduling, bot>>

-----------------------------------------------------------------------------
\* No ClinicAppointment has been constructed.
NoInstance == "no instance"
NoResult == Return(<<>>)

Init ==
    /\ \E s \in Settings :
          /\ slot_start_time = strptime_HM(s[1])
          /\ slot_end_time = strptime_HM(s[2])
          /\ lunch_start_time = strptime_HM(s[3])
          /\ lunch_end_time = strptime_HM(s[4])
    /\ \E d \in ConstructorDurations : duration = init_duration(d)
    /\ today = 1
    /\ zone_ahead = 0
    /\ now_time = 0
    /\ clinic_service = NoInstance
    /\ date_value = initialize_date(None).val
    /\ holidays = {}
    /\ events = {}
    /\ service_up = TRUE
    /\ call = Idle
    /\ ret = NoResult
    /\ bot = BotInit
    /\ vad = VadInit

-----------------------------------------------------------------------------
(* Inputs *)

StartTimeInputs ==
    {None, <<24, 0>>, <<9, 60>>}
    \cup {<<h, m>> : h \in 8..17, m \in {0, 7, 15, 22, 30, 37, 45, 52}}

DurationInputs == {0, 15, 20, 30, 45, 60}

DateInputs ==
    {None, <<2, "short">>, <<2, "bad">>} \cup {<<d, "iso">> : d \in 0..MaxDay}

HolidayInputs == {<<2, "iso">>, <<2, "short">>, <<2, "bad">>, <<5, "iso">>}

Event(day, from, to) ==
    [start |-> day * MINUTES_PER_DAY + from, end |-> day * MINUTES_PER_DAY + to]

\* Events other clients of the calendar may hold: 10:00-10:30, 09:40-09:50,
\* 11:20-11:35 and 16:15-17:30 on day 2, 10:00-10:30 on day 3.
EventPool ==
    { Event(2, 600, 630), Event(2, 580, 590), Event(2, 680, 695),
      Event(2, 975, 1050), Event(3, 600, 630) }

-----------------------------------------------------------------------------
(* Actions.  A call is atomic; its arguments and outcome stay in call and   *)
(* ret until the caller has taken them (Returned).                          *)

Called(name, start_time, dur, date) ==
    [name |-> name, start_time |-> start_time, duration |-> dur, date |-> date,
     contact |-> None, count |-> 0]

Call_is_valid_time ==
    /\ call = Idle
    /\ \E st \in StartTimeInputs, d \in DurationInputs, cd \in DateInputs :
          /\ call' = Called("is_valid_time", st, d, cd)
          /\ ret' = Return(is_valid_time(st, d, cd))
    /\ UNCHANGED <<config, holidays, events, service_up, today>>

Call_is_slot_available ==
    /\ call = Idle
    /\ \E st \in StartTimeInputs, d \in DurationInputs, cd \in DateInputs :
          /\ call' = Called("is_slot_available", st, d, cd)
          /\ ret' = is_slot_available(st, d, cd)
    /\ UNCHANGED <<config, holidays, events, service_up, today>>

Call_Slot_get_available_slots ==
    /\ call = Idle
    /\ \E d \in DurationInputs, cd \in DateInputs :
          /\ call' = Called("Slot.get_available_slots", None, d, cd)
          /\ ret' = Slot_get_available_slots(d, cd)
    /\ UNCHANGED <<config, holidays, events, service_up, today>>

Call_Date_get_available_slots ==
    /\ call = Idle
    /\ \E d \in DurationInputs, cd \in DateInputs :
          /\ call' = Called("Date.get_available_slots", None, d, cd)
          /\ ret' = Date_get_available_slots(d, cd)
    /\ UNCHANGED <<config, holidays, events, service_up, today>>

\* Another instance is constructed, with a key file that loads.
Call_Slot_init ==
    /\ call = Idle
    /\ \E d \in DurationInputs, cd \in DateInputs :
          /\ call' = Called("Slot.__init__", None, d, cd)
          /\ ret' = Slot_init("credentials.json", d, cd)
    /\ UNCHANGED <<config, holidays, events, service_up, today>>

\* is_working_day of an instance made for another date with the holidays of
\* this one, as the day-by-day searches make it.
\* The while True loop of get_next_working_day from next_date, followed for at
\* most n iterations; more than that is a loop that does not end.
RECURSIVE next_working_day_loop(_, _)
next_working_day_loop(next_date, n) ==
    IF n <= 0 THEN Raise("does not terminate")
    ELSE LET temp_instance == new_instance("", strftime_date(next_date), holidays)
         IN  IF temp_instance.exc # "" THEN Raise(temp_instance.exc)
             ELSE IF is_working_day(temp_instance.val.date_value,
                                    temp_instance.val.holidays)
             THEN Return(strftime_date(next_date))
             ELSE next_working_day_loop(next_date + 1, n - 1)

\* Any run of this many consecutive dates holds a working day: five weekdays
\* in every seven dates, and more weekdays than holidays.
WorkingDayWithin == 7 * (Cardinality(holidays) + 1)

get_next_working_day == next_working_day_loop(date_value + 1, WorkingDayWithin)

Call_get_next_working_day ==
    /\ call = Idle
    /\ call' = Called("get_next_working_day", None, 0, None)
    /\ ret' = get_next_working_day
    /\ UNCHANGED <<config, holidays, events, service_up, today>>

Call_is_working_day ==
    /\ call = Idle
    /\ \E cd \in DateInputs :
          LET temp_instance == new_instance("credentials.json", cd, holidays)
          IN  /\ call' = Called("is_working_day", None, 0, cd)
              /\ ret' = IF temp_instance.exc # "" THEN Raise(temp_instance.exc)
                        ELSE Return(is_working_day(temp_instance.val.date_value,
                                                   temp_instance.val.holidays))
    /\ UNCHANGED <<config, holidays, events, service_up, today>>

-----------------------------------------------------------------------------
(* Appointment *)

\* Contact details: absent (None or ''), matching the pattern, or not.
ContactInputs ==
    { <<"", "">>, <<"a@example.com", "+91-1234567890">>,
      <<"a.example.com", "+91-1234567890">>, <<"a@example.com", "12345">> }

validate_email(email) == email = "" \/ email = "a@example.com"
validate_phone(phone) == phone = "" \/ phone = "+91-1234567890"

\* events().insert(body=event): the event as the calendar stores it, under an
\* id of its own.
events_insert(event) ==
    [start |-> event.start, end |-> event.end, id |-> Cardinality(events) + 1]

\* The call has passed its checks and is about to ask the calendar to insert
\* the event.
Inserting(event) == [exc |-> "inserting", val |-> event]

\* A booking that does not ask is_valid_time.
book_slot_unvalidated(date_str, start_time, email, phone) ==
    IF ~validate_email(email) THEN RaiseMsg("ValueError", "Invalid email format")
    ELSE IF ~validate_phone(phone)
    THEN RaiseMsg("ValueError", "Invalid phone number format")
    ELSE LET avail == is_slot_available(start_time, duration, date_str)
         IN  IF avail.exc # "" THEN avail
             ELSE IF ~avail.val
             THEN RaiseMsg("ValueError", "Slot is not available")
             ELSE Inserting(
                    [start |-> get_datetime_string(strptime_date(date_str),
                                                   strptime_HM(start_time)),
                     end |-> get_datetime_string(strptime_date(date_str),
                                  strptime_HM(start_time) + duration)])

\* book_slot up to the insert: the exception it raises, or the event it built.
book_slot(date_str, start_time, email, phone) ==
    IF ~validate_email(email) THEN RaiseMsg("ValueError", "Invalid email format")
    ELSE IF ~validate_phone(phone)
    THEN RaiseMsg("ValueError", "Invalid phone number format")
    ELSE LET valid == is_valid_time(start_time, duration, date_str)
         IN  IF ~valid.ok THEN RaiseMsg("ValueError", <<"Invalid slot", valid.msg>>)
             ELSE LET avail == is_slot_available(start_time, duration, date_str)
                  IN  IF avail.exc # "" THEN avail
                      ELSE IF ~avail.val
                      THEN RaiseMsg("ValueError", "Slot is not available")
                      ELSE Inserting(
                             [start |-> get_datetime_string(strptime_date(date_str),
                                                            strptime_HM(start_time)),
                              end |-> get_datetime_string(strptime_date(date_str),
                                           strptime_HM(start_time) + duration)])

BookTimeInputs ==
    {<<8, 0>>, <<9, 0>>, <<9, 7>>, <<10, 0>>, <<12, 0>>, <<16, 45>>, <<9, 60>>}
BookDateInputs ==
    {<<0, "iso">>, <<2, "iso">>, <<2, "short">>, <<2, "bad">>, <<3, "iso">>,
     <<5, "iso">>}

Call_book_slot ==
    /\ call = Idle
    /\ Cardinality(events) < MaxEvents
    /\ \E st \in BookTimeInputs, cd \in BookDateInputs, c \in ContactInputs :
          /\ call' = [Called("book_slot", st, 0, cd) EXCEPT !.contact = c]
          /\ ret' = book_slot(cd, st, c[1], c[2])
    /\ UNCHANGED <<config, holidays, events, service_up, today>>

\* A second book_slot call for the same slot runs from its checks to its insert
\* while the first one is between its availability check and its insert.
Rival_book_slot ==
    /\ call.name = "book_slot"
    /\ ret.exc = "inserting"
    /\ service_up
    /\ Cardinality(events) < MaxEvents
    /\ \E c \in ContactInputs :
          LET rival == book_slot(call.date, call.start_time, c[1], c[2])
          IN  /\ rival.exc = "inserting"
              /\ events' = events \cup {events_insert(rival.val)}
    /\ UNCHANGED <<config, holidays, service_up, today, call, ret>>

\* An insert that lists the events of the slot once more and gives up when
\* there is one.
Insert_book_slot_rechecked ==
    /\ call.name = "book_slot"
    /\ ret.exc = "inserting"
    /\ IF service_up /\ events_list(ret.val.start, ret.val.end).val = {}
       THEN /\ events' = events \cup {events_insert(ret.val)}
            /\ ret' = Return([event_id |-> events_insert(ret.val).id, date |-> call.date,
                              start_time |-> call.start_time,
                              end_time |-> get_end_time(call.start_time),
                              duration |-> duration])
       ELSE /\ events' = events
            /\ ret' = Raise("Exception")
    /\ UNCHANGED <<config, holidays, service_up, today, call>>

\* events().insert(...).execute() of book_slot and what follows it.
Insert_book_slot ==
    /\ call.name = "book_slot"
    /\ ret.exc = "inserting"
    /\ IF service_up
       THEN /\ events' = events \cup {events_insert(ret.val)}
            /\ ret' = Return([event_id |-> events_insert(ret.val).id, date |-> call.date,
                              start_time |-> call.start_time,
                              end_time |-> get_end_time(call.start_time),
                              duration |-> duration])
       ELSE /\ events' = events
            /\ ret' = Raise("Exception")
    /\ UNCHANGED <<config, holidays, service_up, today, call>>

\* self.credentials_path, an attribute no constructor assigns.
self_credentials_path == Raise("AttributeError")

MaxDaysInputs == {0, 1, 2, 30}

\* The loop of get_next_date_same_slot with n iterations left.
RECURSIVE next_date_loop(_, _, _)
next_date_loop(current_date, n, start_time) ==
    IF n <= 0 THEN Return(None)
    ELSE LET next_date == current_date + 1
             credentials_path == self_credentials_path
         IN  IF credentials_path.exc # "" THEN Raise(credentials_path.exc)
             ELSE LET temp_instance == new_instance(credentials_path.val,
                                                    strftime_date(next_date), holidays)
                  IN  IF temp_instance.exc # "" THEN Raise(temp_instance.exc)
                      ELSE IF ~is_working_day(temp_instance.val.date_value,
                                              temp_instance.val.holidays)
                      THEN next_date_loop(next_date, n - 1, start_time)
                      ELSE LET avail == is_slot_available(start_time, DEFAULT_DURATION,
                                                          strftime_date(next_date))
                           IN  IF avail.exc # "" THEN avail
                               ELSE IF avail.val
                               THEN Return([date |-> strftime_date(next_date),
                                            start_time |-> start_time,
                                            end_time |-> strftime_HM(
                                               strptime_HM(start_time) + DEFAULT_DURATION),
                                            duration |-> duration])
                               ELSE next_date_loop(next_date, n - 1, start_time)

get_next_date_same_slot(start_time, max_days) ==
    next_date_loop(date_value, max_days, start_time)

Call_get_next_date_same_slot ==
    /\ call = Idle
    /\ \E st \in BookTimeInputs, n \in MaxDaysInputs :
          /\ call' = [Called("get_next_date_same_slot", st, 0, None) EXCEPT !.count = n]
          /\ ret' = get_next_date_same_slot(st, n)
    /\ UNCHANGED <<config, holidays, events, service_up, today>>

-----------------------------------------------------------------------------
(* ClinicAppointment *)

working_hours == [start |-> 10, end |-> 17, lunch_start |-> 13, lunch_end |-> 14]
slot_duration == 30
MAX_DAYS_CHECKED == 10

\* GOOGLE_CREDENTIALS: unset, not the JSON of a service account, or one.
CredentialsInputs == {"", "{}", "service account"}

\* self.service is None.
NoService == "None"

setup_calendar(credentials_json) ==
    IF credentials_json = "" THEN NoService
    ELSE IF credentials_json # "service account" THEN NoService
    ELSE "service"

New_ClinicAppointment ==
    /\ call = Idle
    /\ clinic_service = NoInstance
    /\ \E c \in CredentialsInputs : clinic_service' = setup_calendar(c)
    /\ call' = Called("ClinicAppointment", None, 0, None)
    /\ ret' = NoResult
    /\ UNCHANGED <<slot_start_time, slot_end_time, lunch_start_time, lunch_end_time,
                   duration, date_value, zone_ahead, now_time, holidays, events,
                   service_up, today, bot, vad>>

\* A sentence of the assistant: how it begins, and what it is about.
Sentence(prefix, text) == [prefix |-> prefix, text |-> text]
startswith(sentence, prefix) == sentence.prefix = prefix

\* Minutes by which UTC is ahead of America/New_York on a date: the week of the
\* model ends on the Sunday on which daylight saving time ends.
utc_offset(date) == IF date < 6 THEN 240 ELSE 300

\* events().list with a naive local time sent as UTC (isoformat() + 'Z'),
\* against events kept in the local time of the calendar.
clinic_events_list(timeMin, timeMax, date) ==
    events_list(timeMin - utc_offset(date), timeMax - utc_offset(date))

\* '%H:%M', else '%I:%M %p'; ValueError when neither parses.
clinic_strptime(time_str) ==
    IF Len(time_str) = 2 /\ WellFormedTime(time_str) THEN Return(strptime_HM(time_str))
    ELSE IF /\ Len(time_str) = 3
            /\ time_str[1] \in 1..12
            /\ time_str[2] \in 0..59
            /\ time_str[3] \in {"AM", "PM"}
    THEN Return(((time_str[1] % 12) + (IF time_str[3] = "PM" THEN 12 ELSE 0)) * 60
                + time_str[2])
    ELSE Raise("ValueError")

\* The while loop of get_available_slots from current_time (minutes of the day).
RECURSIVE clinic_slots_loop(_, _, _)
clinic_slots_loop(current_time, booked_times, available_slots) ==
    IF ~(current_time \div 60 < working_hours.end) THEN available_slots
    ELSE IF current_time \div 60 = working_hours.lunch_start
    THEN clinic_slots_loop(working_hours.lunch_end * 60 + (current_time % 60),
                           booked_times, available_slots)
    ELSE clinic_slots_loop(current_time + slot_duration, booked_times,
                           IF strftime_HM(current_time) \notin booked_times
                           THEN Append(available_slots, strftime_HM(current_time))
                           ELSE available_slots)

Clinic_get_available_slots(date) ==
    IF clinic_service = NoService THEN Sentence("I apologize", "system unavailable")
    ELSE IF weekday(date) >= 5 THEN Sentence("I apologize", "weekends")
    ELSE LET listed == clinic_events_list(date * MINUTES_PER_DAY,
                                          (date + 1) * MINUTES_PER_DAY, date)
         IN  IF listed.exc # "" THEN Sentence("I'm having trouble", "checking the calendar")
             ELSE LET booked_times == {strftime_HM(e.start % MINUTES_PER_DAY) :
                                         e \in listed.val}
                      available_slots == clinic_slots_loop(working_hours.start * 60,
                                                           booked_times, <<>>)
                  IN  IF available_slots = <<>>
                      THEN [prefix |-> "I'm sorry", text |-> "all appointments are booked",
                            date |-> date]
                      ELSE [prefix |-> "For", text |-> "appointments available",
                            date |-> date, slots |-> available_slots]

\* book_appointment up to the insert: its answer, or the event it built.
book_appointment(date, time_str) ==
    IF clinic_service = NoService THEN Return(Sentence("I apologize", "system unavailable"))
    ELSE IF clinic_strptime(time_str).exc # ""
    THEN Return(Sentence("I couldn't understand", "time format"))
    ELSE LET time == clinic_strptime(time_str).val
             appointment_datetime == date * MINUTES_PER_DAY + time
         IN  IF weekday(date) >= 5 THEN Return(Sentence("I apologize", "weekends"))
             ELSE IF time \div 60 < working_hours.start \/ time \div 60 >= working_hours.end
             THEN Return(Sentence("I apologize", "working hours"))
             ELSE IF time \div 60 = working_hours.lunch_start
             THEN Return(Sentence("I apologize", "lunch break"))
             ELSE LET listed == clinic_events_list(appointment_datetime,
                                    appointment_datetime + slot_duration, date)
                  IN  IF listed.exc # ""
                      THEN Return(Sentence("I'm having trouble", "booking"))
                      ELSE IF listed.val # {}
                      THEN Return(Sentence("I apologize", "no longer available"))
                      ELSE Inserting([start |-> appointment_datetime,
                                      end |-> appointment_datetime + slot_duration])

ClinicTimeInputs ==
    { <<9, 30>>, <<10, 0>>, <<10, 7>>, <<12, 45>>, <<13, 0>>, <<14, 0>>, <<15, 0>>,
      <<16, 45>>, <<17, 0>>, <<25, 0>>, <<10, 0, "AM">>, <<2, 0, "PM">> }

Call_book_appointment ==
    /\ call = Idle
    /\ clinic_service # NoInstance
    /\ Cardinality(events) < MaxEvents
    /\ \E d \in 0..MaxDay, t \in ClinicTimeInputs :
          /\ call' = Called("book_appointment", t, 0, <<d, "date">>)
          /\ ret' = book_appointment(d, t)
    /\ UNCHANGED <<config, holidays, events, service_up, today>>

\* A second book_appointment call for the same slot runs from its checks to
\* its insert while the first one is between its availability check and its
\* insert.
Rival_book_appointment ==
    /\ call.name = "book_appointment"
    /\ ret.exc = "inserting"
    /\ service_up
    /\ Cardinality(events) < MaxEvents
    /\ LET rival == book_appointment(call.date[1], call.start_time)
       IN  /\ rival.exc = "inserting"
           /\ events' = events \cup {events_insert(rival.val)}
    /\ UNCHANGED <<config, holidays, service_up, today, call, ret>>

\* events().insert(...).execute() of book_appointment and what follows it.
Insert_book_appointment ==
    /\ call.name = "book_appointment"
    /\ ret.exc = "inserting"
    /\ IF service_up
       THEN /\ events' = events \cup {events_insert(ret.val)}
            /\ ret' = Return(Sentence("Great!", "booked"))
       ELSE /\ events' = events
            /\ ret' = Return(Sentence("I'm having trouble", "booking"))
    /\ UNCHANGED <<config, holidays, service_up, today, call>>

\* Every appointment the clinic lists for a day gets booked: book_appointment
\* succeeds once for each listed time.
Book_whole_day ==
    /\ call = Idle
    /\ \E d \in 0..MaxDay :
          LET day_slots == Clinic_get_available_slots(d)
          IN  /\ day_slots.prefix = "For"
              /\ events' = events \cup
                    { Event(d, strptime_HM(day_slots.slots[i]),
                            strptime_HM(day_slots.slots[i]) + slot_duration) :
                        i \in 1..Len(day_slots.slots) }
    /\ UNCHANGED <<config, holidays, service_up, today, call, ret>>

Call_Clinic_get_available_slots ==
    /\ call = Idle
    /\ clinic_service # NoInstance
    /\ \E d \in 0..MaxDay :
          /\ call' = Called("Clinic.get_available_slots", None, 0, <<d, "date">>)
          /\ ret' = Return(Clinic_get_available_slots(d))
    /\ UNCHANGED <<config, holidays, events, service_up, today>>

\* The loop with weekend days left out of the count.
RECURSIVE next_slots_loop_weekdays(_, _, _, _)
next_slots_loop_weekdays(current_date, days_checked, num_slots, lookups) ==
    IF ~(0 < num_slots /\ days_checked < MAX_DAYS_CHECKED)
    THEN [days_checked |-> days_checked, found |-> <<>>, lookups |-> lookups]
    ELSE IF weekday(current_date) < 5
    THEN LET day_slots == Clinic_get_available_slots(current_date)
         IN  IF /\ ~startswith(day_slots, "I apologize")
                /\ ~startswith(day_slots, "I'm having trouble")
             THEN [days_checked |-> days_checked, found |-> <<day_slots>>,
                   lookups |-> Append(lookups, current_date)]
             ELSE next_slots_loop_weekdays(current_date + 1, days_checked + 1, num_slots,
                                           Append(lookups, current_date))
    ELSE next_slots_loop_weekdays(current_date + 1, days_checked, num_slots, lookups)

\* The while loop of get_next_available_slots; lookups are the dates whose
\* calendar the loop has asked for so far.
RECURSIVE next_slots_loop(_, _, _, _)
next_slots_loop(current_date, days_checked, num_slots, lookups) ==
    IF ~(0 < num_slots /\ days_checked < MAX_DAYS_CHECKED)
    THEN [days_checked |-> days_checked, found |-> <<>>, lookups |-> lookups]
    ELSE IF weekday(current_date) < 5
    THEN LET day_slots == Clinic_get_available_slots(current_date)
         IN  IF /\ ~startswith(day_slots, "I apologize")
                /\ ~startswith(day_slots, "I'm having trouble")
             THEN [days_checked |-> days_checked, found |-> <<day_slots>>,
                   lookups |-> Append(lookups, current_date)]
             ELSE next_slots_loop(current_date + 1, days_checked + 1, num_slots,
                                  Append(lookups, current_date))
    ELSE next_slots_loop(current_date + 1, days_checked + 1, num_slots, lookups)

get_next_available_slots(start_date, num_slots) ==
    IF clinic_service = NoService
    THEN [prefix |-> "I apologize", text |-> "system unavailable", lookups |-> <<>>]
    ELSE LET loop == next_slots_loop(start_date, 0, num_slots, <<>>)
         IN  IF loop.days_checked >= MAX_DAYS_CHECKED
             THEN [prefix |-> "I apologize", text |-> "couldn't find",
                   lookups |-> loop.lookups]
             ELSE [prefix |-> "Here are", text |-> "next available appointments",
                   days |-> loop.found, lookups |-> loop.lookups]

NumSlotsInputs == {0, 5}

Call_get_next_available_slots ==
    /\ call = Idle
    /\ clinic_service # NoInstance
    /\ \E d \in 0..MaxDay, n \in NumSlotsInputs :
          /\ call' = [Called("get_next_available_slots", None, 0, <<d, "date">>)
                          EXCEPT !.count = n]
          /\ ret' = Return(get_next_available_slots(d, n))
    /\ UNCHANGED <<config, holidays, events, service_up, today>>

\* The caller has taken the outcome of the last call.
Returned ==
    /\ call # Idle
    /\ ret.exc # "inserting"
    /\ call' = Idle
    /\ ret' = NoResult
    /\ UNCHANGED <<config, holidays, events, service_up, today>>

\* Date.add_holiday: the new holiday set, or ValueError and the set as it was.
add_holiday(holiday_date) ==
    IF WellFormedDate(holiday_date)
    THEN [exc |-> "", val |-> holidays \cup {holiday_date}]
    ELSE [exc |-> "ValueError", val |-> holidays]

Call_add_holiday ==
    /\ call = Idle
    /\ \E h \in HolidayInputs :
          /\ call' = Called("add_holiday", None, 0, h)
          /\ holidays' = add_holiday(h).val
          /\ ret' = IF add_holiday(h).exc = "" THEN NoResult
                    ELSE Raise(add_holiday(h).exc)
    /\ UNCHANGED <<config, events, service_up, today>>

\* Date.remove_holiday: the new holiday set.
remove_holiday(holiday_date) == holidays \ {holiday_date}

Call_remove_holiday ==
    /\ call = Idle
    /\ \E h \in HolidayInputs :
          /\ call' = Called("remove_holiday", None, 0, h)
          /\ holidays' = remove_holiday(h)
          /\ ret' = NoResult
    /\ UNCHANGED <<config, events, service_up, today>>

\* Another client of the calendar inserts an event.
InsertEvent ==
    /\ call = Idle
    /\ Cardinality(events) < MaxEvents
    /\ \E e \in EventPool \ events : events' = events \cup {e}
    /\ UNCHANGED <<config, holidays, service_up, today, call, ret>>

\* The calendar backend becomes unreachable, or reachable again.
ServiceChange ==
    /\ call = Idle \/ ret.exc = "inserting"
    /\ service_up' = ~service_up
    /\ UNCHANGED <<config, holidays, events, today, call, ret>>

\* Time passes within the host's day: the clock of self.timezone moves on,
\* and may pass midnight before the host's does (a host west of the zone).
ClockTimes == {0, 600, 900}

TimePasses ==
    /\ call = Idle
    /\ \E a \in {0, 1}, t \in ClockTimes :
          /\ a > zone_ahead \/ (a = zone_ahead /\ t > now_time)
          /\ zone_ahead' = a
          /\ now_time' = t
    /\ UNCHANGED <<slot_start_time, slot_end_time, lunch_start_time, lunch_end_time,
                   duration, date_value, holidays, events, service_up, today,
                   clinic_service, call, ret, bot, vad>>

\* A whole day passes, on the host and in the zone.
Tick ==
    /\ call = Idle
    /\ today < MaxToday
    /\ today' = today + 1
    /\ UNCHANGED <<config, holidays, events, service_up, call, ret>>

Next ==
    \/ Call_is_valid_time
    \/ Call_is_slot_available
    \/ Call_Slot_get_available_slots
    \/ Call_Date_get_available_slots
    \/ Call_Slot_init
    \/ Call_is_working_day
    \/ Call_book_slot
    \/ Rival_book_slot
    \/ Insert_book_slot
    \/ Call_get_next_date_same_slot
    \/ New_ClinicAppointment
    \/ Call_Clinic_get_available_slots
    \/ Call_book_appointment
    \/ Rival_book_appointment
    \/ Insert_book_appointment
    \/ Call_get_next_available_slots
    \/ Returned
    \/ Call_add_holiday
    \/ Call_remove_holiday
    \/ InsertEvent
    \/ ServiceChange
    \/ TimePasses
    \/ Tick
    \/ Book_whole_day
    \/ Call_get_next_working_day
    \/ start_bot
    \/ stop_bot
    \/ Responded
    \/ Scheduler_starts_run
    \/ run_bot
    \/ run_bot_ends
    \/ Call_process_audio_frame
    \/ stop
    \/ cancel

Spec == Init /\ [][Next]_vars

\* Policy validation alone: is_valid_time under every holiday set and date.
NextPolicy ==
    \/ Call_is_valid_time
    \/ Returned
    \/ Call_add_holiday
    \/ Call_remove_holiday
    \/ Tick

SpecPolicy == Init /\ [][NextPolicy]_vars

\* Policy validation against the clock: is_valid_time at every time of day.
NextClock ==
    \/ Call_is_valid_time
    \/ Returned
    \/ TimePasses
    \/ Tick

SpecClock == Init /\ [][NextClock]_vars

\* The entry points that receive a duration.
NextDuration ==
    \/ Call_Slot_init
    \/ Call_is_valid_time
    \/ Call_Slot_get_available_slots
    \/ Returned
    \/ Tick

SpecDuration == Init /\ [][NextDuration]_vars

\* The availability check of one slot against a calendar that changes.
NextAvail ==
    \/ Call_is_slot_available
    \/ Returned
    \/ InsertEvent
    \/ ServiceChange
    \/ Tick

SpecAvail == Init /\ [][NextAvail]_vars

\* Validation while the calendar and its service change.
NextFrame ==
    \/ Call_is_valid_time
    \/ Returned
    \/ InsertEvent
    \/ ServiceChange

SpecFrame == Init /\ [][NextFrame]_vars

\* Working days under a holiday set that changes.
NextWorking ==
    \/ Call_is_working_day
    \/ Returned
    \/ Call_add_holiday
    \/ Call_remove_holiday
    \/ Tick

SpecWorking == Init /\ [][NextWorking]_vars

\* The day-by-day searches over a calendar and a holiday set that change.
NextSearch ==
    \/ Call_get_next_date_same_slot
    \/ New_ClinicAppointment
    \/ Call_get_next_available_slots
    \/ Returned
    \/ Call_add_holiday
    \/ Call_remove_holiday
    \/ InsertEvent
    \/ ServiceChange

SpecSearch == Init /\ [][NextSearch]_vars

\* Bookings through book_slot next to those of other clients.
NextBookSlot ==
    \/ Call_book_slot
    \/ Insert_book_slot
    \/ Returned
    \/ InsertEvent
    \/ ServiceChange
    \/ Tick

SpecBookSlot == Init /\ [][NextBookSlot]_vars

\* Bookings through book_slot and through the clinic's book_appointment.
NextBooking ==
    \/ Call_book_slot
    \/ Insert_book_slot
    \/ New_ClinicAppointment
    \/ Call_book_appointment
    \/ Insert_book_appointment
    \/ Returned
    \/ InsertEvent
    \/ ServiceChange

SpecBooking == Init /\ [][NextBooking]_vars

\* Two bookings at a time.
NextRace ==
    \/ Call_book_slot
    \/ Rival_book_slot
    \/ Insert_book_slot
    \/ New_ClinicAppointment
    \/ Call_book_appointment
    \/ Rival_book_appointment
    \/ Insert_book_appointment
    \/ Returned

SpecRace == Init /\ [][NextRace]_vars

\* Enumeration by Slot.get_available_slots against a changing calendar.
NextSlots ==
    \/ Call_Slot_get_available_slots
    \/ Returned
    \/ InsertEvent
    \/ ServiceChange
    \/ Tick

SpecSlots == Init /\ [][NextSlots]_vars

\* Enumeration by Date.get_available_slots.
NextDate ==
    \/ Call_Date_get_available_slots
    \/ Returned
    \/ Call_add_holiday
    \/ Call_remove_holiday
    \/ InsertEvent
    \/ Tick

SpecDate == Init /\ [][NextDate]_vars

\* Holidays and bookings of one Appointment instance.
NextHolidayBooking ==
    \/ Call_add_holiday
    \/ Call_remove_holiday
    \/ Call_book_slot
    \/ Insert_book_slot
    \/ Returned

SpecHolidayBooking == Init /\ [][NextHolidayBooking]_vars

\* The slots of a day as ClinicAppointment lists them.
NextClinicSlots ==
    \/ New_ClinicAppointment
    \/ Call_Clinic_get_available_slots
    \/ Returned
    \/ InsertEvent
    \/ ServiceChange

SpecClinicSlots == Init /\ [][NextClinicSlots]_vars

\* Bookings of ClinicAppointment alone.
NextClinicBooking ==
    \/ New_ClinicAppointment
    \/ Call_book_appointment
    \/ Insert_book_appointment
    \/ Returned
    \/ ServiceChange

SpecClinicBooking == Init /\ [][NextClinicBooking]_vars

\* The clinic's search over days that fill up.
NextClinicSearch ==
    \/ New_ClinicAppointment
    \/ Call_get_next_available_slots
    \/ Returned
    \/ Book_whole_day
    \/ ServiceChange

SpecClinicSearch == Init /\ [][NextClinicSearch]_vars

\* The next working day under a changing holiday set.
NextNextWorking ==
    \/ Call_get_next_working_day
    \/ Returned
    \/ Call_add_holiday
    \/ Call_remove_holiday
    \/ Tick

SpecNextWorking == Init /\ [][NextNextWorking]_vars

\* The bot control API, the scheduler and the task of its runs.
NextBot ==
    \/ start_bot
    \/ stop_bot
    \/ Responded
    \/ Scheduler_starts_run
    \/ run_bot
    \/ run_bot_ends

SpecBot == Init /\ [][NextBot]_vars

\* A stream of audio frames through the SileroVADSTTService.
NextVad ==
    \/ Call_process_audio_frame
    \/ stop
    \/ cancel

SpecVad == Init /\ [][NextVad]_vars

-----------------------------------------------------------------------------
(* Vocabulary of the properties *)

\* The slot a call is about, after the defaults for omitted arguments.
CallStart == or_start_time(call.start_time)
CallDuration == or_duration(call.duration)
CallDate == or_date(call.date)
CallDay == strptime_date(CallDate)

\* Half-open intervals [a, b) and [c, d) overlap.
Overlap(a, b, c, d) == a < d /\ c < b

\* Some event of the calendar overlaps [from, to) minutes of day `day`.
Busy(day, from, to) ==
    \E e \in events :
        Overlap(day * MINUTES_PER_DAY + from, day * MINUTES_PER_DAY + to, e.start, e.end)

Enumerated == call.name = "Slot.get_available_slots" /\ ret.exc = ""
Starts == {ret.val[i].start_time : i \in 1..Len(ret.val)}
\* The candidate start times: the grid of 15 minutes from slot_start_time up
\* to slot_end_time.
Grid == {t \in slot_start_time..slot_end_time : (t - slot_start_time) % 15 = 0}

DefaultSettings ==
    /\ slot_start_time = strptime_HM(DEFAULT_START_TIME)
    /\ slot_end_time = strptime_HM(DEFAULT_END_TIME)
    /\ lunch_start_time = strptime_HM(DEFAULT_LUNCH_START)
    /\ lunch_end_time = strptime_HM(DEFAULT_LUNCH_END)

-----------------------------------------------------------------------------
(* Enumeration: Slot.get_available_slots *)

\* C1: every slot returned by Slot.get_available_slots for a date, a duration
\* and any calendar passes is_valid_time for that date, start time and
\* duration, and its window [start, start + duration) overlaps no event.
C1_Soundness ==
    Enumerated =>
        \A i \in 1..Len(ret.val) :
            LET s == ret.val[i]
                from == strptime_HM(s.start_time)
            IN  /\ s.date = CallDate
                /\ WellFormedDate(s.date) /\ WellFormedTime(s.start_time)
                /\ is_valid_time(s.start_time, CallDuration, s.date).ok
                /\ ~Busy(strptime_date(s.date), from, from + CallDuration)

\* C1 witness: slots were returned for a day on which the calendar holds an
\* event, for a duration other than the instance's own.
C1_Witness ==
    /\ Enumerated
    /\ Len(ret.val) > 0
    /\ CallDuration # duration
    /\ \E e \in events : e.start \div MINUTES_PER_DAY = CallDay

\* C5: among the candidates is_valid_time accepts, a candidate is left out iff
\* its half-open window overlaps an event; with the default hours, one event
\* 10:00-10:30 and 30 minute slots, 09:30 and 10:30 are offered and 09:45 and
\* 10:00 are not.
C5_EventOverlap ==
    Enumerated =>
        /\ \A t \in Grid :
              is_valid_time(strftime_HM(t), CallDuration, CallDate).ok =>
                  (strftime_HM(t) \notin Starts <=> Busy(CallDay, t, t + CallDuration))
        /\ ( /\ DefaultSettings
             /\ CallDuration = 30
             /\ WellFormedDate(CallDate) /\ CallDay >= today
             /\ events = {Event(CallDay, 600, 630)} )
           => /\ <<9, 30>> \in Starts /\ <<10, 30>> \in Starts
              /\ <<9, 45>> \notin Starts /\ <<10, 0>> \notin Starts

\* C5 witness: the scenario itself.
C5_Witness ==
    /\ Enumerated
    /\ DefaultSettings
    /\ CallDuration = 30
    /\ events = {Event(CallDay, 600, 630)}
    /\ <<9, 30>> \in Starts

\* C6: every candidate start time on the grid from slot_start_time up to
\* slot_end_time that is_valid_time accepts and whose window overlaps no event
\* is in the returned sequence.
C6_Completeness ==
    Enumerated =>
        \A t \in Grid :
            ( /\ is_valid_time(strftime_HM(t), CallDuration, CallDate).ok
              /\ ~Busy(CallDay, t, t + CallDuration) )
            => strftime_HM(t) \in Starts

\* C6 witness: the last candidate of the day, ending exactly at
\* slot_end_time, was returned while another candidate was left out for an
\* event.
C6_Witness ==
    /\ Enumerated
    /\ strftime_HM(slot_end_time - CallDuration) \in Starts
    /\ \E t \in Grid :
          /\ is_valid_time(strftime_HM(t), CallDuration, CallDate).ok
          /\ strftime_HM(t) \notin Starts

\* The scenario of C7: default hours, 30 minute slots, a date not in the past
\* and no event on it.
C7_Scenario ==
    /\ Enumerated
    /\ DefaultSettings
    /\ CallDuration = 30
    /\ WellFormedDate(CallDate) /\ CallDay >= today
    /\ ~Busy(CallDay, 0, MINUTES_PER_DAY)

QuarterHours(from, to) == {strftime_HM(t) : t \in {u \in from..to : u % 15 = 0}}

\* C7 as stated: the scenario returns 16 slots, starting 09:00, ..., 11:30 and
\* 13:00, ..., 16:30, none of which intersects 12:00-13:00.
C7_Original ==
    C7_Scenario =>
        /\ Len(ret.val) = 16
        /\ Starts = QuarterHours(540, 690) \cup QuarterHours(780, 990)

\* C7 amended: the scenario returns 26 slots, in ascending order: the 11
\* starts 09:00, 09:15, ..., 11:30 and the 15 starts 13:00, ..., 16:30; none
\* of them intersects 12:00-13:00.
C7_DefaultDay ==
    C7_Scenario =>
        /\ Len(ret.val) = 26
        /\ \A i \in 1..11 : ret.val[i].start_time = strftime_HM(540 + 15 * (i - 1))
        /\ \A i \in 12..26 : ret.val[i].start_time = strftime_HM(780 + 15 * (i - 12))
        /\ \A i \in 1..Len(ret.val) :
              LET from == strptime_HM(ret.val[i].start_time)
              IN  ~Overlap(from, from + 30, 720, 780)

\* C7 witness: the scenario on a day after today.
C7_Witness == C7_Scenario /\ CallDay > today /\ Len(ret.val) > 0

-----------------------------------------------------------------------------
(* Policy validation: Slot.is_valid_time *)

\* is_valid_time was called for a slot whose date and start time parse.
Validated ==
    /\ call.name = "is_valid_time"
    /\ WellFormedDate(CallDate)
    /\ WellFormedTime(CallStart)

CallFrom == strptime_HM(CallStart)
CallTo == CallFrom + CallDuration

\* The policy checks, each on its own.
PastDate == CallDay < today
BadDuration == CallDuration \notin {15, 30, 45, 60}
InsideHours == CallFrom >= slot_start_time /\ CallTo <= slot_end_time
LunchOverlap == CallFrom < lunch_end_time /\ CallTo > lunch_start_time
OffGrid == (CallFrom - slot_start_time) % 15 # 0

HoursReasons == {MSG_OUTSIDE, MSG_EXCEEDS}

\* The checks a slot fails, numbered in the order of the code, and the
\* messages that report each.
Failed ==
    {k \in 1..5 :
        \/ k = 1 /\ PastDate
        \/ k = 2 /\ BadDuration
        \/ k = 3 /\ ~InsideHours
        \/ k = 4 /\ LunchOverlap
        \/ k = 5 /\ OffGrid}

ReasonsOf(k) ==
    CASE k = 1 -> {MSG_PAST}
      [] k = 2 -> {MSG_DURATION}
      [] k = 3 -> HoursReasons
      [] k = 4 -> {MSG_LUNCH}
      [] k = 5 -> {MSG_ALIGN}

\* The reasons a call reported: the message of a rejection.
Reported == IF ret.val.ok THEN {} ELSE {ret.val.msg}

ReachesLunchCheck == ~PastDate /\ ~BadDuration /\ InsideHours

\* C4: lunch is tested on half-open intervals.  A slot is rejected for lunch
\* only if start < lunch end and start + duration > lunch start; every slot
\* with such an overlap is rejected, and for lunch whenever the earlier
\* checks pass.  A slot starting exactly at lunch start is rejected; a slot
\* ending exactly at lunch start and a slot starting exactly at lunch end are
\* not rejected for lunch and are accepted when on the grid.
C4_LunchHalfOpen ==
    Validated =>
        /\ ret.val.msg = MSG_LUNCH => LunchOverlap
        /\ LunchOverlap => ~ret.val.ok
        /\ ReachesLunchCheck => (ret.val.msg = MSG_LUNCH <=> LunchOverlap)
        /\ (ReachesLunchCheck /\ CallFrom = lunch_start_time) => ret.val.msg = MSG_LUNCH
        /\ (ReachesLunchCheck /\ ~OffGrid
              /\ (CallTo = lunch_start_time \/ CallFrom = lunch_end_time))
           => ret.val.ok

\* C4 witness: a slot ending exactly at lunch start was accepted.
C4_Witness ==
    /\ Validated
    /\ CallTo = lunch_start_time
    /\ ret.val.ok

\* C8 as stated: on a date in the holiday set is_valid_time returns invalid,
\* with a reason that names the holiday (none of the reasons of the other
\* checks), for every start time and duration.
C8_Original ==
    (Validated /\ CallDate \in holidays) =>
        /\ ~ret.val.ok
        /\ ret.val.msg \notin
              {MSG_PAST, MSG_DURATION, MSG_OUTSIDE, MSG_EXCEEDS, MSG_LUNCH,
               MSG_ALIGN, MSG_VALID, MSG_VALUE_ERROR}

\* The checks made before the alignment check pass.
ReachesGridCheck == ReachesLunchCheck /\ ~LunchOverlap

\* C9: a slot is rejected as not aligned only if (start - slot start) mod 15
\* is not 0; every such slot is rejected, and as not aligned whenever the
\* earlier checks pass; every accepted slot starts on the grid; with the
\* default hours a slot starting 09:07 is rejected as not aligned.
C9_GridAlignment ==
    Validated =>
        /\ ret.val.msg = MSG_ALIGN => OffGrid
        /\ OffGrid => ~ret.val.ok
        /\ ReachesGridCheck => (ret.val.msg = MSG_ALIGN <=> OffGrid)
        /\ (DefaultSettings /\ CallStart = <<9, 7>> /\ ~PastDate /\ ~BadDuration)
           => ret.val.msg = MSG_ALIGN

\* C9 witness: 09:07 was rejected as not aligned under the default hours.
C9_Witness ==
    /\ Validated
    /\ DefaultSettings
    /\ CallStart = <<9, 7>>
    /\ ret.val.msg = MSG_ALIGN

\* C10: a slot is rejected for the working hours only if start < slot start
\* or start + duration > slot end; every such slot is rejected, and for the
\* working hours whenever the date and duration checks pass; every accepted
\* slot lies inside the working hours; a slot ending exactly at slot end is
\* accepted when it is on the grid and clear of lunch.
C10_WorkingHours ==
    Validated =>
        /\ ret.val.msg \in HoursReasons => ~InsideHours
        /\ ~InsideHours => ~ret.val.ok
        /\ (~PastDate /\ ~BadDuration)
           => (ret.val.msg \in HoursReasons <=> ~InsideHours)
        /\ (ReachesGridCheck /\ ~OffGrid /\ CallTo = slot_end_time) => ret.val.ok

\* C10 witness: a slot ending exactly at slot end was accepted.
C10_Witness ==
    /\ Validated
    /\ CallTo = slot_end_time
    /\ ret.val.ok

-----------------------------------------------------------------------------
(* Enumeration: Date.get_available_slots *)

\* C2 as stated: for a date that is a weekend day or a holiday,
\* Date.get_available_slots returns the empty list and raises nothing,
\* whatever the calendar holds.
C2_Original ==
    ( /\ call.name = "Date.get_available_slots"
      /\ WellFormedDate(CallDate)
      /\ (weekday(CallDay) \in {5, 6} \/ CallDate \in holidays) )
    => ret = Return(<<>>)

-----------------------------------------------------------------------------
(* Policy validation against the clock *)

\* C11 as stated: every slot whose date and start time are at or before the
\* current time in the configured timezone is rejected as past, a slot of
\* today whose start time has passed included, today being the date in the
\* configured timezone.
C11_Original ==
    ( /\ Validated
      /\ \/ CallDay < zone_today
         \/ CallDay = zone_today /\ CallFrom <= now_time )
    => (~ret.val.ok /\ ret.val.msg = MSG_PAST)

-----------------------------------------------------------------------------
(* Durations *)

\* C12 as stated: a duration outside {15, 30, 45, 60} handed to construction,
\* to is_valid_time or to get_available_slots makes the call fail or report
\* the duration error; none of them goes on with another duration.
C12_Original ==
    (call.duration # 0 /\ call.duration \notin {15, 30, 45, 60}) =>
        /\ call.name = "Slot.__init__" => ret.exc # ""
        /\ call.name = "is_valid_time" => ~ret.val.ok
        /\ call.name = "Slot.get_available_slots" => ret.exc = "ValueError"

-----------------------------------------------------------------------------
(* Availability of one slot *)

\* The call is is_slot_available, of a well-formed date and time, and the
\* calendar answered.
Checked ==
    /\ call.name = "is_slot_available"
    /\ WellFormedDate(CallDate)
    /\ WellFormedTime(CallStart)
    /\ ret.exc = ""

\* C13 as stated: is_slot_available returns true iff no event overlaps the
\* slot's half-open window and is_valid_time accepts the slot, so never true
\* for a slot that is_valid_time rejects.
C13_Original ==
    Checked =>
        ( ret.val = TRUE <=>
            /\ ~Busy(CallDay, CallFrom, CallTo)
            /\ is_valid_time(call.start_time, call.duration, call.date).ok )

-----------------------------------------------------------------------------
(* Validation and the calendar *)

\* The verdict of is_valid_time for every input, as a function.
Verdicts ==
    [a \in StartTimeInputs \X DurationInputs \X DateInputs |->
        is_valid_time(a[1], a[2], a[3])]

\* C14: is_valid_time does not depend on the bookings.  Whatever event is
\* added to the calendar, and whether the calendar service answers or not, the
\* verdict and reason for every date, start time and duration stay the same;
\* and a call of is_valid_time returns without an exception (it asks the
\* calendar nothing) and leaves the settings, the holidays, the events and
\* the service as they were.
C14_Independence ==
    [][ /\ (events' # events \/ service_up' # service_up) => Verdicts' = Verdicts
        /\ call'.name = "is_valid_time" =>
              /\ ret'.exc = ""
              /\ UNCHANGED <<config, holidays, events, service_up, today>> ]_vars

\* A slot found valid while the calendar holds an event inside it and the
\* calendar service is down.
C14_Witness ==
    /\ Validated
    /\ ret.val.ok
    /\ Busy(CallDay, CallFrom, CallTo)
    /\ ~service_up

-----------------------------------------------------------------------------
(* Working days *)

\* is_working_day has answered for the date of the call.
AskedWorkingDay == call.name = "is_working_day" /\ ret.exc = ""

\* The date it answered for: the one given, or the current date.
AskedDay == IF call.date = None THEN zone_today ELSE strptime_date(call.date)

\* C15: is_working_day answers false exactly when the date falls on a
\* Saturday or Sunday or the date, written YYYY-MM-DD, is an element of the
\* holiday set, and true otherwise, for every date and holiday set.
C15_WorkingDay ==
    AskedWorkingDay =>
        ( ret.val = FALSE <=>
            \/ AskedDay % 7 \in {5, 6}
            \/ <<AskedDay, "iso">> \in holidays )

\* A weekday that is a holiday is not a working day, next to a holiday set
\* that also holds a weekend day.
C15_Witness ==
    /\ AskedWorkingDay
    /\ AskedDay = 2
    /\ holidays = {<<2, "iso">>, <<5, "iso">>}
    /\ ret.val = FALSE

-----------------------------------------------------------------------------
(* Order of the enumeration *)

\* C16: the slots get_available_slots returns are in strictly ascending order
\* of start time, hence without duplicates, and the same call made again on
\* the same date, duration, calendar and current date returns the same
\* sequence in the same order.
C16_Ascending ==
    Enumerated =>
        /\ \A i, j \in 1..Len(ret.val) :
              i < j => strptime_HM(ret.val[i].start_time)
                         < strptime_HM(ret.val[j].start_time)
        /\ Slot_get_available_slots(call.duration, call.date) = ret

\* Slots returned on both sides of an event and of the lunch break.
C16_Witness ==
    /\ Enumerated
    /\ Len(ret.val) >= 3
    /\ Busy(CallDay, slot_start_time, slot_end_time)
    /\ \E i \in 1..(Len(ret.val) - 1) :
          strptime_HM(ret.val[i + 1].start_time)
            > strptime_HM(ret.val[i].start_time) + STEP_MINUTES

-----------------------------------------------------------------------------
(* The forward searches *)

\* The day-by-day searches: of the same slot on a later date, and of the next
\* day with appointments of the clinic.
SearchedDate == call.name = "get_next_date_same_slot" /\ WellFormedTime(call.start_time)
SearchedClinic ==
    /\ call.name = "get_next_available_slots"
    /\ clinic_service = "service"
    /\ call.count > 0

Earliest(S) == CHOOSE d \in S : \A e \in S : d <= e

\* The dates within max_days after date_value that are working days on which
\* the slot of the call is free.
DateHorizon == {date_value + k : k \in 1..call.count}
FreeDates ==
    {d \in DateHorizon :
        /\ d % 7 \notin {5, 6}
        /\ <<d, "iso">> \notin holidays
        /\ ~Busy(d, strptime_HM(call.start_time),
                 strptime_HM(call.start_time) + DEFAULT_DURATION)}

\* The ten dates from start_date on, and those of them the clinic presents.
ClinicHorizon == {call.date[1] + k : k \in 0..9}
Presentable(d) ==
    /\ d % 7 < 5
    /\ Clinic_get_available_slots(d).prefix \notin {"I apologize", "I'm having trouble"}
PresentableDates == {d \in ClinicHorizon : Presentable(d)}

\* The dates a sequence of lookups went through.
Range(seq) == {seq[i] : i \in 1..Len(seq)}

\* C17 as stated: the forward search ends by returning the first day found
\* within the lookahead bound, or not-found once the bound is used up, and it
\* looks at no date beyond the bound.
C17_Original ==
    /\ (SearchedDate /\ service_up) =>
          /\ ret.exc = ""
          /\ IF FreeDates = {} THEN ret.val = None
             ELSE ret.val # None /\ ret.val.date = <<Earliest(FreeDates), "iso">>
    /\ SearchedClinic =>
          /\ Range(ret.val.lookups) \subseteq ClinicHorizon
          /\ IF PresentableDates = {} THEN ret.val.text = "couldn't find"
             ELSE /\ ret.val.prefix = "Here are"
                  /\ ret.val.days[1].date = Earliest(PresentableDates)

\* The half of it that concerns the clinic.
C17_Clinic ==
    SearchedClinic =>
        /\ Range(ret.val.lookups) \subseteq ClinicHorizon
        /\ IF PresentableDates = {} THEN ret.val.text = "couldn't find"
           ELSE /\ ret.val.prefix = "Here are"
                /\ ret.val.days[1].date = Earliest(PresentableDates)

\* The clinic's search has reported not-found.
ClinicNotFound == SearchedClinic /\ ret.val.text = "couldn't find"

\* The last date the clinic's search gets to: the first presentable one, or
\* the end of the ten days.
LastSearched ==
    IF PresentableDates = {} THEN call.date[1] + 9 ELSE Earliest(PresentableDates)

\* C18 as stated: non-working days do not count toward the lookahead bound,
\* so a search that reports not-found has inspected as many working days as
\* the bound says.
C18_Original ==
    ClinicNotFound => Len(ret.val.lookups) = MAX_DAYS_CHECKED

\* C18 amended: every calendar day counts toward the bound, weekend days
\* included.  The clinic's search looks up exactly the weekdays among the ten
\* consecutive dates from start_date, up to the first one it can present, so
\* at most eight working days; a search that reports not-found has looked up
\* all the weekdays of those ten dates and no other.
C18_CalendarDays ==
    SearchedClinic =>
        /\ Range(ret.val.lookups) =
              {d \in ClinicHorizon : d % 7 < 5 /\ d <= LastSearched}
        /\ Len(ret.val.lookups) <= 8
        /\ ClinicNotFound =>
              Range(ret.val.lookups) = {d \in ClinicHorizon : d % 7 < 5}

\* Not-found after six working days: the ten days began on a Saturday and held
\* two weekends.
C18_Witness ==
    /\ ClinicNotFound
    /\ call.date[1] % 7 = 5
    /\ Len(ret.val.lookups) = 6

-----------------------------------------------------------------------------
(* Booking *)

\* A step that calls book_slot, and whether its contact details are well formed.
BookSlotCalled == call = Idle /\ call'.name = "book_slot"
ContactWellFormed ==
    /\ call'.contact[1] \in {"", "a@example.com"}
    /\ call'.contact[2] \in {"", "+91-1234567890"}

\* The slot of the call about to be made is accepted by is_valid_time and
\* found free by is_slot_available, both with the duration of the instance.
Bookable ==
    /\ is_valid_time(call'.start_time, duration, call'.date).ok
    /\ is_slot_available(call'.start_time, duration, call'.date) = Return(TRUE)

BookAppointmentCalled ==
    /\ call = Idle
    /\ call'.name = "book_appointment"
    /\ clinic_service = "service"
    /\ clinic_strptime(call'.start_time).exc = ""
    /\ call'.date[1] % 7 < 5
    /\ clinic_strptime(call'.start_time).val \div 60 \in (10..16) \ {13}

\* The slot asked of book_slot, and of book_appointment, holds an event.
BookSlotOccupied ==
    Busy(strptime_date(call'.date), strptime_HM(call'.start_time),
         strptime_HM(call'.start_time) + duration)
BookAppointmentOccupied ==
    Busy(call'.date[1], clinic_strptime(call'.start_time).val,
         clinic_strptime(call'.start_time).val + 30)

\* C20 as stated: a booking of a slot that an existing event occupies inserts
\* nothing, leaves the calendar unchanged and answers with the slot-not-
\* available outcome, which is neither that of a policy violation nor that of
\* a backend failure.
C20_Original ==
    [][ /\ ( /\ BookSlotCalled /\ ContactWellFormed
             /\ is_valid_time(call'.start_time, duration, call'.date).ok
             /\ service_up /\ BookSlotOccupied ) =>
               /\ ret' = RaiseMsg("ValueError", "Slot is not available")
               /\ events' = events
        /\ ( BookAppointmentCalled /\ service_up /\ BookAppointmentOccupied ) =>
               /\ ret' = Return(Sentence("I apologize", "no longer available"))
               /\ events' = events ]_vars

\* The half of it that concerns book_slot.
C20_BookSlot ==
    [][ ( /\ BookSlotCalled /\ ContactWellFormed
          /\ is_valid_time(call'.start_time, duration, call'.date).ok
          /\ service_up /\ BookSlotOccupied ) =>
            /\ ret' = RaiseMsg("ValueError", "Slot is not available")
            /\ events' = events ]_vars

-----------------------------------------------------------------------------
(* The slots as values *)

\* C21 as stated: every slot get_available_slots returns carries the duration
\* that was asked for and ends that many minutes after it starts, also when
\* the duration asked for is not the one of the instance.
C21_Original ==
    Enumerated =>
        \A i \in 1..Len(ret.val) :
            /\ ret.val[i].duration = CallDuration
            /\ strptime_HM(ret.val[i].end_time)
                 = strptime_HM(ret.val[i].start_time) + CallDuration

-----------------------------------------------------------------------------
(* The race between check and insert *)

\* Two events of the calendar cover the same slot.
DoubleBooked ==
    \E e1, e2 \in events :
        e1.id # e2.id /\ e1.start = e2.start /\ e1.end = e2.end

\* C22: booking checks and then inserts, in two steps.  A call that found the
\* slot free inserts its event when the calendar accepts inserts, whatever has
\* been booked since its check: the insert step adds one event covering the
\* slot that was checked, also when a second call has meanwhile found the same
\* slot free and booked it.
C22_CheckThenInsert ==
    [][ (ret.exc = "inserting" /\ ret' # ret /\ service_up) =>
            \E e \in events' \ events :
                /\ events' = events \cup {e}
                /\ e.start = ret.val.start
                /\ e.end = ret.val.end ]_vars

\* Both calls have inserted: book_slot has returned its booking, and the
\* calendar holds two events for the slot, the later one its own.
C22_Witness ==
    /\ call.name = "book_slot"
    /\ ret.exc = ""
    /\ ret.val # <<>>
    /\ DoubleBooked
    /\ \E e \in events :
          /\ e.id = ret.val.event_id
          /\ e.id = 2
          /\ e.start = strptime_date(call.date) * MINUTES_PER_DAY
                         + strptime_HM(call.start_time)

-----------------------------------------------------------------------------
(* The holiday set *)

\* C23 as stated: add_holiday of a well-formed date makes that date a holiday,
\* so that is_working_day is false for it and get_available_slots for it is
\* empty; remove_holiday takes the date out again and changes nothing when it
\* is absent; add_holiday of a malformed date raises ValueError and leaves the
\* set as it was.
C23_Original ==
    [][ /\ (call'.name = "add_holiday" /\ WellFormedDate(call'.date)) =>
              /\ ret'.exc = ""
              /\ holidays' = holidays \cup {call'.date}
              /\ ~is_working_day(strptime_date(call'.date), holidays')
              /\ \A h \in HolidayInputs :
                    h = call'.date => Date_get_available_slots(0, h)' = Return(<<>>)
        /\ (call'.name = "add_holiday" /\ ~WellFormedDate(call'.date)) =>
              /\ ret'.exc = "ValueError"
              /\ holidays' = holidays
        /\ call'.name = "remove_holiday" =>
              holidays' = holidays \ {call'.date} ]_vars

\* The part of it that is about the set alone.
C23_SetOnly ==
    [][ /\ (call'.name = "add_holiday" /\ WellFormedDate(call'.date)) =>
              /\ ret'.exc = ""
              /\ holidays' = holidays \cup {call'.date}
        /\ (call'.name = "add_holiday" /\ ~WellFormedDate(call'.date)) =>
              /\ ret'.exc = "ValueError"
              /\ holidays' = holidays
        /\ call'.name = "remove_holiday" =>
              holidays' = holidays \ {call'.date} ]_vars

\* The part about is_working_day, for dates spelt YYYY-MM-DD.
C23_NotWorkingIso ==
    [][ (call'.name = "add_holiday" /\ call'.date[2] = "iso") =>
            ~is_working_day(strptime_date(call'.date), holidays') ]_vars

(***************************************************************************)
(* Bookings and working days                                               *)
(***************************************************************************)

\* C24: book_slot never inserts an event on a date that is a weekend day or
\* is in the holiday set at the time of the call.
C24_Original ==
    [][ (call.name = "book_slot" /\ ret.exc = "inserting" /\ events' # events) =>
            /\ ~is_weekend(strptime_date(call.date))
            /\ ~is_holiday(strptime_date(call.date), holidays) ]_vars

\* The weekend half of C24 alone.
C24_Weekend ==
    [][ (call.name = "book_slot" /\ ret.exc = "inserting" /\ events' # events) =>
            ~is_weekend(strptime_date(call.date)) ]_vars

\* The holiday half of C24 alone.
C24_Holiday ==
    [][ (call.name = "book_slot" /\ ret.exc = "inserting" /\ events' # events) =>
            ~is_holiday(strptime_date(call.date), holidays) ]_vars

(***************************************************************************)
(* The slots ClinicAppointment lists                                       *)
(***************************************************************************)

ClinicListed ==
    /\ call.name = "Clinic.get_available_slots"
    /\ ret.val.prefix = "For"

\* C25: ClinicAppointment.get_available_slots never lists a slot whose
\* 30-minute window overlaps (half-open) an event of that day, whatever the
\* event's start minute and length.
C25_Original ==
    ClinicListed =>
        \A i \in 1..Len(ret.val.slots) :
            ~Busy(call.date[1], strptime_HM(ret.val.slots[i]),
                  strptime_HM(ret.val.slots[i]) + slot_duration)

\* What the listing does leave out: a slot at whose very minute an event of
\* that day starts.
C25_ExactStarts ==
    ClinicListed =>
        \A i \in 1..Len(ret.val.slots) :
            ~\E e \in events :
                e.start = call.date[1] * MINUTES_PER_DAY + strptime_HM(ret.val.slots[i])

(***************************************************************************)
(* The events book_appointment inserts                                     *)
(***************************************************************************)

\* book_appointment inserts the event it built.
ClinicInserts ==
    /\ call.name = "book_appointment"
    /\ ret.exc = "inserting"
    /\ events' # events

ClinicDay == call.date[1]
ClinicDayStart == ClinicDay * MINUTES_PER_DAY

\* C26: every event book_appointment inserts lies on a weekday, starts at or
\* after 10:00, ends at or before 17:00, and does not intersect the 13:00-14:00
\* lunch break, for every accepted time string.
C26_Original ==
    [][ ClinicInserts =>
          /\ weekday(ClinicDay) < 5
          /\ ret.val.start >= ClinicDayStart + working_hours.start * 60
          /\ ret.val.end <= ClinicDayStart + working_hours.end * 60
          /\ ~Overlap(ret.val.start, ret.val.end,
                      ClinicDayStart + working_hours.lunch_start * 60,
                      ClinicDayStart + working_hours.lunch_end * 60) ]_vars

\* The parts of C26 decided by the hour of the start: the weekday, the
\* earliest start, and a start outside the lunch hour and before 17:00.
C26_ByHour ==
    [][ ClinicInserts =>
          /\ weekday(ClinicDay) < 5
          /\ ret.val.start >= ClinicDayStart + working_hours.start * 60
          /\ ret.val.start < ClinicDayStart + working_hours.end * 60
          /\ ~(ret.val.start \in (ClinicDayStart + working_hours.lunch_start * 60)
                                 ..(ClinicDayStart + working_hours.lunch_end * 60 - 1))
    ]_vars

(***************************************************************************)
(* The days the clinic's search presents                                   *)
(***************************************************************************)

\* The search answered with its list of next available appointments.
ClinicPresented ==
    /\ call.name = "get_next_available_slots"
    /\ ret.val.prefix = "Here are"

\* C27: get_next_available_slots presents a day only if that day has at
\* least one free slot; a weekday that is fully booked, or whose calendar
\* lookup failed, is passed over.
C27_Original ==
    ClinicPresented =>
        \A i \in 1..Len(ret.val.days) :
            /\ ret.val.days[i].prefix = "For"
            /\ Len(ret.val.days[i].slots) >= 1

\* The half of C27 about failed lookups and weekend days: neither is presented.
C27_NoFailedDay ==
    ClinicPresented =>
        \A i \in 1..Len(ret.val.days) :
            /\ ret.val.days[i].prefix \in {"For", "I'm sorry"}
            /\ weekday(ret.val.days[i].date) < 5

(***************************************************************************)
(* The next working day                                                    *)
(***************************************************************************)

\* The dates after date_value that are neither a weekend day nor a holiday.
LaterWorkingDays ==
    {d \in (date_value + 1)..(date_value + WorkingDayWithin) :
        is_working_day(d, holidays)}

\* C28: get_next_working_day terminates for every finite holiday set and
\* returns the earliest date strictly after date_value that is neither a
\* weekend day nor a holiday; it leaves date_value and the holiday set
\* unchanged.
C28_Original ==
    [][ call'.name = "get_next_working_day" =>
          /\ ret' = Return(strftime_date(Earliest(LaterWorkingDays)))
          /\ date_value' = date_value
          /\ holidays' = holidays ]_vars

\* What does hold of the call: it ends, and changes neither date_value nor
\* the holiday set.
C28_EndsUnchanged ==
    [][ call'.name = "get_next_working_day" =>
          /\ ret'.exc # "does not terminate"
          /\ date_value' = date_value
          /\ holidays' = holidays ]_vars

(***************************************************************************)
(* Bot control                                                             *)
(***************************************************************************)

\* A step that serves a start_bot request.
StartBotServed ==
    /\ bot.response = NoResponse
    /\ bot'.response.request = "start_bot"

\* The step adds a DagRun row.
Triggered == \E r \in RunIds : bot.dag_runs[r] = "none" /\ bot'.dag_runs[r] # "none"

\* The runs that are running, and the bot.py processes that are alive.
ActiveRuns == DagRun_find("running")
ActiveProcesses == bot.bot_process

\* C29: start_bot triggers a new DAG run only when no run of bot_control_dag
\* is running, and otherwise answers "Bot is already running" without
\* triggering; after any sequence of start_bot and stop_bot requests at most
\* one bot run, and at most one bot.py process, is active at a time.
C29_Original ==
    [][ /\ StartBotServed =>
              IF DagRun_find("running") = {}
              THEN Triggered /\ bot'.response.message = "Bot started successfully"
              ELSE /\ ~Triggered
                   /\ bot'.dag_runs = bot.dag_runs
                   /\ bot'.response.message = "Bot is already running"
        /\ Cardinality(ActiveRuns') <= 1
        /\ Cardinality(ActiveProcesses') <= 1 ]_vars

\* The half of C29 about one request: start_bot triggers exactly when it finds
\* no running run.
C29_StartBot ==
    [][ StartBotServed =>
          IF DagRun_find("running") = {}
          THEN Triggered /\ bot'.response.message = "Bot started successfully"
          ELSE /\ ~Triggered
               /\ bot'.dag_runs = bot.dag_runs
               /\ bot'.response.message = "Bot is already running" ]_vars

\* The other half as a state predicate.
C29_AtMostOne ==
    /\ Cardinality(ActiveRuns) <= 1
    /\ Cardinality(ActiveProcesses) <= 1

(***************************************************************************)
(* Speech segments                                                         *)
(***************************************************************************)

\* Whether what the service was fed at place i is a frame the VAD model
\* classifies as speech.
SpeechAt(i) == vad.fed[i].kind = "frame" /\ vad.fed[i].speech_prob >= threshold

\* The runs of speech frames in what the service was fed from place i on,
\* with `run` the frames of the run in progress and `out` the runs that have
\* ended: a non-speech frame ends a run, a cancel throws it away.
RECURSIVE SpeechRuns(_, _, _)
SpeechRuns(i, run, out) ==
    IF i > Len(vad.fed) THEN [run |-> run, out |-> out]
    ELSE IF vad.fed[i].kind = "cancel" THEN SpeechRuns(i + 1, <<>>, out)
    ELSE IF SpeechAt(i) THEN SpeechRuns(i + 1, Append(run, i), out)
    ELSE SpeechRuns(i + 1, <<>>, IF run # <<>> THEN Append(out, run) ELSE out)

\* The segments that are due: every run that has ended, and the run in
\* progress once the stream is over.
SegmentsDue ==
    LET runs == SpeechRuns(1, <<>>, <<>>)
    IN  IF vad.ended /\ runs.run # <<>> THEN Append(runs.out, runs.run) ELSE runs.out

Cancelled == \E i \in 1..Len(vad.fed) : vad.fed[i].kind = "cancel"

\* C30: each maximal run of speech frames is passed to run_stt exactly once,
\* with exactly its frames, when the first non-speech frame follows it or at
\* stop(); non-speech frames are never transcribed; after cancel() no buffered
\* audio is transcribed and a later speech frame is still accepted.
C30_Original ==
    /\ vad.transcribed = SegmentsDue
    /\ vad.error = ""

\* C30 for streams without a cancel.
C30_Uncancelled ==
    ~Cancelled => (vad.transcribed = SegmentsDue /\ vad.error = "")

\* The part of C30 about what is never transcribed: every run_stt call got a
\* segment that is due, so no non-speech frame and nothing buffered at a
\* cancel.
C30_OnlyDue ==
    \A k \in 1..Len(vad.transcribed) :
        \E m \in 1..Len(SegmentsDue) : vad.transcribed[k] = SegmentsDue[m]

====
